---- MODULE Spec2Model ----
(***************************************************************************)
(* The run controller of statics/script.js: one page instance, its         *)
(* controller variables, the DOM state the handlers read and write, the    *)
(* WebSockets it has created, its pending reconnect timers and its         *)
(* in-flight submissions.  Every JavaScript function is an operator from   *)
(* a page state (a record) to a page state; every event-loop task (a DOM   *)
(* event, a socket callback, a timer, a fetch settlement) is one action.   *)
(*                                                                         *)
(* Purely cosmetic DOM state (labels, icons, css classes, tooltips, the    *)
(* status banner, animation timers, the toast's own dismissal timers) is   *)
(* not part of the state.  Strings the handlers trim or compare are        *)
(* sequences of one-character strings.                                     *)
(***************************************************************************)
EXTENDS Integers, Sequences, FiniteSets, TLC

VARIABLES
    isAnalyzing,        \* script.js:12
    allSelected,        \* script.js:13
    websocket,          \* script.js:14  "null", or the readyState of the socket it references
    sessionId,          \* script.js:15
    analysisResults,    \* script.js:16
    buttonMode,         \* script.js:17
    currentProgressItem,\* script.js:70  Undefined, Detached, or an index into the log
    locationValue,      \* locationInput.value
    locationDisabled,   \* locationInput.disabled
    checked,            \* the checked checkboxes' values
    cbDisabled,         \* checkbox.disabled (set for all of them together)
    selectAllDisabled,  \* selectAllBtn.disabled
    btnDisabled,        \* runAnalysisBtn.disabled
    clickListeners,     \* the click listeners of runAnalysisBtn
    progressContainer,  \* the entries of #progressContainer; <<>> when the element is absent
    progressBar,        \* <<>> when #analysisProgressBar is absent, else <<[current, total]>>
    href,               \* <<>> until showResults navigates, then <<session>>
    orphans,            \* open sockets that `websocket` no longer references
    closing,            \* sockets in CLOSING: close() called, close event not yet delivered
    timers,             \* pending setTimeout(connectWebSocket, 2000) timers
    pending,            \* fetch('/run-analysis') calls not yet settled
    urls,               \* the session identifiers in the URLs of the sockets created so far
    delivered,          \* the messages of a scripted server, in the order onmessage got them
    ev                  \* the task that ran last and what it emitted

vars == << isAnalyzing, allSelected, websocket, sessionId, analysisResults, buttonMode,
           currentProgressItem, locationValue, locationDisabled, checked, cbDisabled,
           selectAllDisabled, btnDisabled, clickListeners, progressContainer, progressBar,
           href, orphans, closing, timers, pending, urls, delivered, ev >>

(* Bounds of the model. *)
MaxSockets == 2
MaxTimers == 1
MaxPending == 1
MaxLog == 2
MaxScript == 4
MaxSimTimers == 2

RECONNECT_DELAY == 2000
SIMULATION_DELAY == 3000

(* ------------------------------ strings -------------------------------- *)

Narayanganj == << "N", "a", "r", "a", "y", "a", "n", "g", "a", "n", "j" >>
narayanganj == << "n", "a", "r", "a", "y", "a", "n", "g", "a", "n", "j" >>

UpperChars == << "A", "B", "C", "D", "E", "F", "G", "H", "I", "J", "K", "L", "M",
                 "N", "O", "P", "Q", "R", "S", "T", "U", "V", "W", "X", "Y", "Z" >>
LowerChars == << "a", "b", "c", "d", "e", "f", "g", "h", "i", "j", "k", "l", "m",
                 "n", "o", "p", "q", "r", "s", "t", "u", "v", "w", "x", "y", "z" >>

LowerChar(c) ==
    IF \E i \in DOMAIN UpperChars : UpperChars[i] = c
    THEN LowerChars[CHOOSE i \in DOMAIN UpperChars : UpperChars[i] = c]
    ELSE c

toLowerCase(str) == [i \in DOMAIN str |-> LowerChar(str[i])]

IsSpace(c) == c \in {" ", "\t", "\n"}

RECURSIVE trimStart(_)
trimStart(str) ==
    IF str # <<>> /\ IsSpace(Head(str)) THEN trimStart(Tail(str)) ELSE str

RECURSIVE trimEnd(_)
trimEnd(str) ==
    IF str # <<>> /\ IsSpace(str[Len(str)])
    THEN trimEnd(SubSeq(str, 1, Len(str) - 1))
    ELSE str

trim(str) == trimEnd(trimStart(str))

(* ------------------------------ inputs --------------------------------- *)

(* What a user can type into the location field. *)
LocationInputs ==
    { <<>>, << " " >>, Narayanganj, << " " >> \o narayanganj, << "D", "h", "a", "k", "a" >> }

(* The values of the input[name="analysis[]"] checkboxes of the page. *)
Kinds == { "flood", "heat" }

(* generateSessionId() draws from the clock and Math.random(). *)
SessionIds == { "session_1", "session_2" }

(* Result descriptor lists a run-finished event can carry. *)
ResultLists == { <<>>, << "flood" >> }

(* The current/total pairs a progress event can carry. *)
ProgressPairs == { << 1, 2 >>, << 2, 2 >>, << 2, 1 >> }

(* The events the backend can push over a channel. *)
Messages ==
    { [type |-> "analysis_start", message |-> "start", current |-> 0, total |-> 0,
       completed_analyses |-> <<>>],
      [type |-> "analysis_complete", message |-> "done", current |-> 0, total |-> 0,
       completed_analyses |-> <<>>],
      [type |-> "analysis_error", message |-> "failed", current |-> 0, total |-> 0,
       completed_analyses |-> <<>>] }
    \cup { [type |-> "progress_update", message |-> "step", current |-> p[1],
            total |-> p[2], completed_analyses |-> <<>>] : p \in ProgressPairs }
    \cup { [type |-> "all_analyses_complete", message |-> "all done", current |-> 0,
            total |-> 0, completed_analyses |-> r] : r \in ResultLists }
    \cup { [type |-> "error", message |-> m, current |-> 0, total |-> 0,
            completed_analyses |-> <<>>] : m \in { "boom", "oops" } }

(* How a fetch('/run-analysis') can settle. *)
Outcomes == { "ok", "http_500", "network_error", "invalid_json" }

(* The settlements in which fetch resolves with a response whose ok is     *)
(* true (status 200-299): the body is JSON, or it is not (empty, as with   *)
(* 204, or another content type) and response.json() rejects.              *)
Http2xx == { "ok", "invalid_json" }

(* ------------------------------- state --------------------------------- *)

(* currentProgressItem before the first run-started event, and once the    *)
(* container of the element it refers to has been removed.                 *)
Undefined == 0
Detached == -1

St ==
    [ isAnalyzing |-> isAnalyzing, allSelected |-> allSelected, websocket |-> websocket,
      sessionId |-> sessionId, analysisResults |-> analysisResults,
      buttonMode |-> buttonMode, currentProgressItem |-> currentProgressItem,
      locationValue |-> locationValue, locationDisabled |-> locationDisabled,
      checked |-> checked, cbDisabled |-> cbDisabled,
      selectAllDisabled |-> selectAllDisabled, btnDisabled |-> btnDisabled,
      clickListeners |-> clickListeners, progressContainer |-> progressContainer,
      progressBar |-> progressBar, href |-> href, orphans |-> orphans,
      closing |-> closing, timers |-> timers, pending |-> pending, urls |-> urls,
      delivered |-> delivered,
      ev |-> ev ]

Set(s) ==
    /\ isAnalyzing' = s.isAnalyzing
    /\ allSelected' = s.allSelected
    /\ websocket' = s.websocket
    /\ sessionId' = s.sessionId
    /\ analysisResults' = s.analysisResults
    /\ buttonMode' = s.buttonMode
    /\ currentProgressItem' = s.currentProgressItem
    /\ locationValue' = s.locationValue
    /\ locationDisabled' = s.locationDisabled
    /\ checked' = s.checked
    /\ cbDisabled' = s.cbDisabled
    /\ selectAllDisabled' = s.selectAllDisabled
    /\ btnDisabled' = s.btnDisabled
    /\ clickListeners' = s.clickListeners
    /\ progressContainer' = s.progressContainer
    /\ progressBar' = s.progressBar
    /\ href' = s.href
    /\ orphans' = s.orphans
    /\ closing' = s.closing
    /\ timers' = s.timers
    /\ pending' = s.pending
    /\ urls' = s.urls
    /\ delivered' = s.delivered
    /\ ev' = s.ev

(* The controller state of section 4.1: Submitting and Running are the     *)
(* same state of the variables (startAnalysis dispatches in the turn that  *)
(* sets isAnalyzing).                                                      *)
Phase(s) ==
    IF s.isAnalyzing THEN "Running"
    ELSE IF s.buttonMode = "results" THEN "ResultsReady"
    ELSE "Idle"

(* The sockets that still deliver events. *)
Live(s) == (IF s.websocket = "OPEN" THEN 1 ELSE 0) + s.orphans + s.closing

(* The record of the task that ran last: which callback (op), from which   *)
(* source (src), with which event (arg), in which controller state (pre);  *)
(* the functions it entered from the dispatcher (calls), the notifications *)
(* it showed (notes), the session identifiers of the channels it opened    *)
(* (opened), the submission bodies it sent (sent), the delays of the       *)
(* timers it set (scheduled), the channel opens and submissions it issued  *)
(* in the order it issued them (effects), and whether it ended in an       *)
(* exception.                                                              *)
NoArg == [type |-> "none"]

BeginWith(s, op, src, arg) ==
    [s EXCEPT !.ev = [op |-> op, src |-> src, arg |-> arg, pre |-> Phase(s),
                      calls |-> {}, notes |-> <<>>, opened |-> <<>>, sent |-> <<>>,
                      scheduled |-> <<>>, effects |-> <<>>, threw |-> FALSE]]

Begin(s, op, src) == BeginWith(s, op, src, NoArg)

Called(s, f) == [s EXCEPT !.ev.calls = @ \cup {f}]

(* ----------------------------- UI helpers ------------------------------ *)

showNotification(s, message, type) ==
    [s EXCEPT !.ev.notes = Append(@, [type |-> type, message |-> message])]

getProgressIcon(type) ==
    CASE type = "success" -> "check"
      [] type = "error" -> "times"
      [] type = "info" -> "spinner fa-spin"
      [] OTHER -> "info-circle"

(* showAnalysisProgress with insertBefore(firstChild) for the appendChild  *)
(* of line 159: the newest entry goes to the top of the log.               *)
showAnalysisProgress_prepend(s, message, type) ==
    [s EXCEPT !.progressContainer =
        << [cls |-> type, icon |-> getProgressIcon(type), message |-> message] >> \o @]

(* Appends one entry to the log, creating the container when absent; the   *)
(* element it returns is the last one of the container.                    *)
showAnalysisProgress(s, message, type) ==
    [s EXCEPT !.progressContainer =
        Append(@, [cls |-> type, icon |-> getProgressIcon(type), message |-> message])]

(* Rewrites the element progressItem refers to.  Reading innerHTML of      *)
(* undefined throws; an element of a removed container is rewritten out    *)
(* of sight.                                                               *)
markProgressAsCompleted(s, message, progressItem) ==
    CASE progressItem = Undefined -> [s EXCEPT !.ev.threw = TRUE]
      [] progressItem = Detached -> s
      [] OTHER ->
           [s EXCEPT !.progressContainer[progressItem] =
               [@ EXCEPT !.icon = getProgressIcon("success"), !.message = message]]

RECURSIVE GCD(_, _)
GCD(a, b) == IF b = 0 THEN a ELSE GCD(b, a % b)

(* current / total * 100 as an exact fraction in lowest terms. *)
Percentage(current, total) ==
    LET g == GCD(current * 100, total)
    IN  << (current * 100) \div g, total \div g >>

(* updateProgressBar with Math.min(100, ...) around the percentage of line *)
(* 187: the fill never exceeds the track.                                  *)
updateProgressBar_clamped(s, current, total, message) ==
    [s EXCEPT !.progressBar =
        << [width |-> IF current > total THEN << 100, 1 >> ELSE Percentage(current, total),
            current |-> current, total |-> total, message |-> message] >>]

updateProgressBar(s, current, total, message) ==
    [s EXCEPT !.progressBar =
        << [width |-> Percentage(current, total), current |-> current, total |-> total,
            message |-> message] >>]

(* progressContainer.remove() and progressBar.remove(): the elements leave *)
(* the document; a reference held in currentProgressItem now points to a   *)
(* detached element.                                                       *)
removeProgress(s) ==
    [s EXCEPT !.progressContainer = <<>>,
              !.progressBar = <<>>,
              !.currentProgressItem =
                  IF @ > 0 THEN Detached ELSE @]

updateSelectAllButton(s) ==
    [s EXCEPT !.allSelected = (Cardinality(s.checked) = Cardinality(Kinds))]

updateRunAnalysisButton(s) ==
    IF s.isAnalyzing THEN s
    ELSE LET hasLocation == Len(trim(s.locationValue)) > 0
             hasSelectedAnalysis == s.checked # {}
             canRun == hasLocation /\ hasSelectedAnalysis
         IN  [s EXCEPT !.btnDisabled = ~canRun]

toggleSelectAll(s) ==
    IF s.isAnalyzing THEN s
    ELSE LET t == [s EXCEPT !.allSelected = ~s.allSelected,
                            !.checked = IF ~s.allSelected THEN Kinds ELSE {}]
         IN  updateRunAnalysisButton(updateSelectAllButton(t))

(* ------------------------------ channel -------------------------------- *)

(* new WebSocket(.../ws/${sessionId}); the socket `websocket` referenced   *)
(* before, if still open, stays open with its callbacks bound.             *)
connectWebSocket(s) ==
    [s EXCEPT !.websocket = "OPEN",
              !.orphans = @ + (IF s.websocket = "OPEN" THEN 1 ELSE 0),
              !.urls = @ \cup {s.sessionId},
              !.ev.opened = Append(@, s.sessionId),
              !.ev.effects = Append(@, "WebSocket")]

(* if (websocket) { websocket.close(); websocket = null; } *)
closeWebSocket(s) ==
    IF s.websocket = "null" THEN s
    ELSE [s EXCEPT !.websocket = "null",
                   !.closing = @ + (IF s.websocket = "OPEN" THEN 1 ELSE 0)]

(* resetForm followed by sessionId = generateSessionId(): a new session    *)
(* for the next run.                                                       *)
resetForm_newSession(s) ==
    LET t == closeWebSocket([s EXCEPT !.isAnalyzing = FALSE, !.buttonMode = "analysis"])
        u == [t EXCEPT !.clickListeners = (@ \ {"showResults"}) \cup {"runAnalysis"},
                       !.btnDisabled = FALSE,
                       !.locationDisabled = FALSE,
                       !.selectAllDisabled = FALSE,
                       !.cbDisabled = FALSE,
                       !.sessionId = CHOOSE x \in SessionIds : x # @]
    IN  updateRunAnalysisButton(removeProgress(u))

resetForm(s) ==
    LET t == closeWebSocket([s EXCEPT !.isAnalyzing = FALSE, !.buttonMode = "analysis"])
        u == [t EXCEPT !.clickListeners = (@ \ {"showResults"}) \cup {"runAnalysis"},
                       !.btnDisabled = FALSE,
                       !.locationDisabled = FALSE,
                       !.selectAllDisabled = FALSE,
                       !.cbDisabled = FALSE]
    IN  updateRunAnalysisButton(removeProgress(u))

(* handleAnalysisComplete without lines 109-113: the channel is left open  *)
(* and the handle kept.                                                    *)
handleAnalysisComplete_keepChannel(s, message) ==
    LET t == [s EXCEPT !.isAnalyzing = FALSE,
                       !.analysisResults = message.completed_analyses,
                       !.buttonMode = "results"]
        u == [t EXCEPT !.clickListeners = (@ \ {"runAnalysis"}) \cup {"showResults"},
                       !.btnDisabled = FALSE,
                       !.locationDisabled = FALSE,
                       !.selectAllDisabled = FALSE,
                       !.cbDisabled = FALSE]
    IN  showNotification(u, message.message, "success")

(* handleAnalysisComplete without the removeEventListener of line 121: the *)
(* showResults listener is added beside the runAnalysis listener.          *)
handleAnalysisComplete_keepsRunListener(s, message) ==
    LET t == closeWebSocket([s EXCEPT !.isAnalyzing = FALSE,
                                      !.analysisResults = message.completed_analyses,
                                      !.buttonMode = "results"])
        u == [t EXCEPT !.clickListeners = @ \cup {"showResults"},
                       !.btnDisabled = FALSE,
                       !.locationDisabled = FALSE,
                       !.selectAllDisabled = FALSE,
                       !.cbDisabled = FALSE]
    IN  showNotification(u, message.message, "success")

(* handleAnalysisComplete that also removes the progress display, as       *)
(* resetForm does (lines 390-398).                                         *)
handleAnalysisComplete_clearsProgress(s, message) ==
    LET t == closeWebSocket([s EXCEPT !.isAnalyzing = FALSE,
                                      !.analysisResults = message.completed_analyses,
                                      !.buttonMode = "results"])
        u == [t EXCEPT !.clickListeners = (@ \ {"runAnalysis"}) \cup {"showResults"},
                       !.btnDisabled = FALSE,
                       !.locationDisabled = FALSE,
                       !.selectAllDisabled = FALSE,
                       !.cbDisabled = FALSE]
    IN  removeProgress(showNotification(u, message.message, "success"))

handleAnalysisComplete(s, message) ==
    LET t == closeWebSocket([s EXCEPT !.isAnalyzing = FALSE,
                                      !.analysisResults = message.completed_analyses,
                                      !.buttonMode = "results"])
        u == [t EXCEPT !.clickListeners = (@ \ {"runAnalysis"}) \cup {"showResults"},
                       !.btnDisabled = FALSE,
                       !.locationDisabled = FALSE,
                       !.selectAllDisabled = FALSE,
                       !.cbDisabled = FALSE]
    IN  showNotification(u, message.message, "success")

handleWebSocketMessage(s, message) ==
    CASE message.type = "analysis_start" ->
           LET t == showAnalysisProgress(s, message.message, "info")
           IN  [t EXCEPT !.currentProgressItem = Len(t.progressContainer)]
      [] message.type = "progress_update" ->
           updateProgressBar(s, message.current, message.total, message.message)
      [] message.type = "analysis_complete" ->
           markProgressAsCompleted(s, message.message, s.currentProgressItem)
      [] message.type = "analysis_error" ->
           showAnalysisProgress(s, message.message, "error")
      [] message.type = "all_analyses_complete" ->
           handleAnalysisComplete(s, message)
      [] message.type = "error" ->
           resetForm(showNotification(s, message.message, "error"))
      [] OTHER -> s

(* onclose without lines 60-62: a close is logged and nothing else. *)
onclose_noReconnect(s) == s

(* onclose without the test of isAnalyzing: every close reconnects. *)
onclose_always(s) ==
    [s EXCEPT !.timers = @ + 1, !.ev.scheduled = Append(@, RECONNECT_DELAY)]

(* websocket.onclose *)
onclose(s) ==
    IF s.isAnalyzing
    THEN [s EXCEPT !.timers = @ + 1, !.ev.scheduled = Append(@, RECONNECT_DELAY)]
    ELSE s

(* ------------------------------- runs ---------------------------------- *)

(* startAnalysis up to its first await: the statements before fetch, and   *)
(* the dispatch of the request.                                            *)
(* startAnalysis without lines 319-320: the select-all button and the      *)
(* checkboxes stay enabled during the run.                                 *)
startAnalysis_selectionEnabled(s, selectedAnalysis) ==
    LET t == connectWebSocket([s EXCEPT !.isAnalyzing = TRUE])
        u == [t EXCEPT !.btnDisabled = TRUE,
                       !.locationDisabled = TRUE]
        w == removeProgress(u)
    IN  [w EXCEPT !.pending = @ + 1,
                  !.ev.sent = Append(@, [location |-> trim(w.locationValue),
                                         analyses |-> selectedAnalysis,
                                         session_id |-> w.sessionId]),
                  !.ev.effects = Append(@, "fetch")]

(* startAnalysis with the fetch of lines 330-340 moved above line 300: the *)
(* submission is dispatched first and the channel opened after it.         *)
startAnalysis_fetchFirst(s, selectedAnalysis) ==
    LET r == [s EXCEPT !.isAnalyzing = TRUE,
                       !.pending = @ + 1,
                       !.ev.sent = Append(@, [location |-> trim(s.locationValue),
                                              analyses |-> selectedAnalysis,
                                              session_id |-> s.sessionId]),
                       !.ev.effects = Append(@, "fetch")]
        t == connectWebSocket(r)
        u == [t EXCEPT !.btnDisabled = TRUE,
                       !.locationDisabled = TRUE,
                       !.selectAllDisabled = TRUE,
                       !.cbDisabled = TRUE]
    IN  removeProgress(u)

startAnalysis(s, selectedAnalysis) ==
    LET t == connectWebSocket([s EXCEPT !.isAnalyzing = TRUE])
        u == [t EXCEPT !.btnDisabled = TRUE,
                       !.locationDisabled = TRUE,
                       !.selectAllDisabled = TRUE,
                       !.cbDisabled = TRUE]
        w == removeProgress(u)
    IN  [w EXCEPT !.pending = @ + 1,
                  !.ev.sent = Append(@, [location |-> trim(w.locationValue),
                                         analyses |-> selectedAnalysis,
                                         session_id |-> w.sessionId]),
                  !.ev.effects = Append(@, "fetch")]

ValidationMessage == "Please enter a location and select at least one analysis option"

UnsupportedMessage == "Currently, only Narayanganj is supported as a location"

ErrorMessage(outcome) ==
    CASE outcome = "http_500" -> "Error starting analysis: HTTP error! status: 500"
      [] outcome = "network_error" -> "Error starting analysis: Failed to fetch"
      [] outcome = "invalid_json" -> "Error starting analysis: Unexpected end of JSON input"

(* startAnalysisSettled without the test of response.ok (lines 342-344): a *)
(* 500 response is read like any other.                                    *)
startAnalysisSettled_noStatusCheck(s, outcome) ==
    LET t == [s EXCEPT !.pending = @ - 1]
    IN  IF outcome \in {"ok", "http_500"} THEN t
        ELSE resetForm(showNotification(t, ErrorMessage(outcome), "error"))

(* startAnalysis from the settlement of its fetch on: a rejected fetch, a  *)
(* response that is not ok and a body response.json() rejects all reach    *)
(* the catch block.                                                        *)
startAnalysisSettled(s, outcome) ==
    LET t == [s EXCEPT !.pending = @ - 1]
    IN  IF outcome = "ok" THEN t
        ELSE resetForm(showNotification(t, ErrorMessage(outcome), "error"))

(* The validation and the start of runAnalysis, lines 277-293, with the    *)
(* test of the selection left out of the condition of line 282.            *)
validateAndStart_locationOnly(s) ==
    LET location == trim(s.locationValue)
        selectedAnalysis == s.checked
    IN  IF location = <<>>
        THEN showNotification(s, ValidationMessage, "error")
        ELSE IF toLowerCase(location) # narayanganj
        THEN startAnalysis(
                 [showNotification(s, UnsupportedMessage, "warning")
                  EXCEPT !.locationValue = Narayanganj],
                 selectedAnalysis)
        ELSE startAnalysis(s, selectedAnalysis)

(* runAnalysis from line 277 on. *)
(* The validation and the start of runAnalysis without line 290: the       *)
(* warning is shown and the field keeps what the user typed.               *)
validateAndStart_keepsLocation(s) ==
    LET location == trim(s.locationValue)
        selectedAnalysis == s.checked
    IN  IF location = <<>> \/ selectedAnalysis = {}
        THEN showNotification(s, ValidationMessage, "error")
        ELSE IF toLowerCase(location) # narayanganj
        THEN startAnalysis(showNotification(s, UnsupportedMessage, "warning"),
                           selectedAnalysis)
        ELSE startAnalysis(s, selectedAnalysis)

validateAndStart(s) ==
    LET location == trim(s.locationValue)
        selectedAnalysis == s.checked
    IN  IF location = <<>> \/ selectedAnalysis = {}
        THEN showNotification(s, ValidationMessage, "error")
        ELSE IF toLowerCase(location) # narayanganj
        THEN startAnalysis(
                 [showNotification(s, UnsupportedMessage, "warning")
                  EXCEPT !.locationValue = Narayanganj],
                 selectedAnalysis)
        ELSE startAnalysis(s, selectedAnalysis)

(* runAnalysis with the guard of the simulated variant (part_000, line 90), *)
(* which does not test buttonMode.                                         *)
runAnalysis_noModeGuard(s) ==
    IF s.isAnalyzing THEN s ELSE validateAndStart(s)

runAnalysis(s) ==
    IF s.isAnalyzing \/ s.buttonMode = "results" THEN s ELSE validateAndStart(s)

showResults(s) ==
    [s EXCEPT !.href = << s.sessionId >>]

(* --------------------------- initial state ----------------------------- *)

(* DOMContentLoaded, lines 3-37: the markup decides which boxes are        *)
(* checked and what the location field holds when the two update calls     *)
(* run; the field is set to "Narayanganj" after them.                      *)
InitOf(sids, markupBoxes, markupLocations) ==
    \E sid \in sids, boxes \in markupBoxes, markupLocation \in markupLocations :
        LET s0 == [ isAnalyzing |-> FALSE, allSelected |-> FALSE, websocket |-> "null",
                    sessionId |-> sid, analysisResults |-> <<>>,
                    buttonMode |-> "analysis", currentProgressItem |-> Undefined,
                    locationValue |-> markupLocation, locationDisabled |-> FALSE,
                    checked |-> boxes, cbDisabled |-> FALSE,
                    selectAllDisabled |-> FALSE, btnDisabled |-> FALSE,
                    clickListeners |-> {"runAnalysis"}, progressContainer |-> <<>>,
                    progressBar |-> <<>>, href |-> <<>>, orphans |-> 0,
                    closing |-> 0, timers |-> 0, pending |-> 0, urls |-> {},
                    delivered |-> <<>>,
                    ev |-> [op |-> "load", src |-> "none", arg |-> NoArg, pre |-> "Idle",
                            calls |-> {}, notes |-> <<>>, opened |-> <<>>, sent |-> <<>>,
                            scheduled |-> <<>>, effects |-> <<>>, threw |-> FALSE] ]
            s1 == updateRunAnalysisButton(updateSelectAllButton(s0))
            s2 == [s1 EXCEPT !.locationValue = Narayanganj]
        IN  /\ isAnalyzing = s2.isAnalyzing
            /\ allSelected = s2.allSelected
            /\ websocket = s2.websocket
            /\ sessionId = s2.sessionId
            /\ analysisResults = s2.analysisResults
            /\ buttonMode = s2.buttonMode
            /\ currentProgressItem = s2.currentProgressItem
            /\ locationValue = s2.locationValue
            /\ locationDisabled = s2.locationDisabled
            /\ checked = s2.checked
            /\ cbDisabled = s2.cbDisabled
            /\ selectAllDisabled = s2.selectAllDisabled
            /\ btnDisabled = s2.btnDisabled
            /\ clickListeners = s2.clickListeners
            /\ progressContainer = s2.progressContainer
            /\ progressBar = s2.progressBar
            /\ href = s2.href
            /\ orphans = s2.orphans
            /\ closing = s2.closing
            /\ timers = s2.timers
            /\ pending = s2.pending
            /\ urls = s2.urls
            /\ delivered = s2.delivered
            /\ ev = s2.ev

(* ------------------------------ actions -------------------------------- *)

(* The bounds of the model: a task that would exceed one is not taken. *)
Within(s) ==
    /\ Live(s) <= MaxSockets
    /\ s.timers <= MaxTimers
    /\ s.pending <= MaxPending
    /\ Len(s.progressContainer) <= MaxLog

(* The page is gone once showResults has navigated away. *)
Loaded == href = <<>>

Do(s) == Loaded /\ Within(s) /\ Set(s)

(* 'input' on the location field (line 29). *)
LocationInput(v) ==
    /\ ~locationDisabled
    /\ Do(updateRunAnalysisButton([Begin(St, "input", "user") EXCEPT !.locationValue = v]))

(* 'change' on a checkbox (lines 32-37). *)
CheckboxChange(k) ==
    /\ ~cbDisabled
    /\ LET t == [Begin(St, "change", "user") EXCEPT
                     !.checked = IF k \in @ THEN @ \ {k} ELSE @ \cup {k}]
       IN  Do(updateRunAnalysisButton(updateSelectAllButton(t)))

(* 'click' on the select-all button (line 27). *)
SelectAllClick ==
    /\ ~selectAllDisabled
    /\ Do(toggleSelectAll(Begin(St, "toggleSelectAll", "click")))

(* Ctrl/Cmd + A with the focus outside the location field (lines 495-500). *)
KeydownSelectAll ==
    Do(IF ~isAnalyzing
       THEN toggleSelectAll(Begin(St, "toggleSelectAll", "key"))
       ELSE Begin(St, "toggleSelectAll", "key"))

(* The click listeners of the action control, in the order they were added. *)
dispatchClick(s) ==
    LET a == IF "runAnalysis" \in s.clickListeners
             THEN runAnalysis(Called(s, "runAnalysis"))
             ELSE s
    IN  IF "showResults" \in s.clickListeners
        THEN showResults(Called(a, "showResults"))
        ELSE a

(* A user's click on the action control: a disabled button gets no click. *)
ButtonClick ==
    /\ ~btnDisabled
    /\ Do(dispatchClick(Begin(St, "click", "user")))

(* The Ctrl/Cmd + Enter branch without the test of runAnalysisBtn.disabled *)
(* in line 485.                                                            *)
keydownEnter_ignoresDisabled(s) ==
    IF ~s.isAnalyzing
    THEN IF s.buttonMode = "results"
         THEN showResults(Called(s, "showResults"))
         ELSE runAnalysis(Called(s, "runAnalysis"))
    ELSE s

(* Ctrl/Cmd + Enter (lines 483-492). *)
keydownEnter(s) ==
    IF ~s.btnDisabled /\ ~s.isAnalyzing
    THEN IF s.buttonMode = "results"
         THEN showResults(Called(s, "showResults"))
         ELSE runAnalysis(Called(s, "runAnalysis"))
    ELSE s

KeydownEnter == Do(keydownEnter(Begin(St, "keydown", "user")))

(* runAnalysis() entered in whatever state the page is in: the entry point *)
(* of a run request, whoever calls it.                                     *)
RunAnalysis == Do(runAnalysis(Called(Begin(St, "runAnalysis", "call"), "runAnalysis")))

(* websocket.onmessage of a socket that is open: the one `websocket`       *)
(* references or one it referenced before.                                 *)
OnMessage(message) ==
    \E src \in {"handle", "orphan"} :
        /\ src = "handle" => websocket = "OPEN"
        /\ src = "orphan" => orphans > 0
        /\ Do(handleWebSocketMessage(BeginWith(St, "onmessage", src, message), message))

(* websocket.onclose: the close event of the socket `websocket`            *)
(* references (the peer or the network closed it), of an open socket it    *)
(* referenced before, or of a socket the controller called close() on.     *)
OnClose ==
    \/ /\ websocket = "OPEN"
       /\ Do(onclose([Begin(St, "onclose", "handle") EXCEPT !.websocket = "CLOSED"]))
    \/ /\ orphans > 0
       /\ Do(onclose([Begin(St, "onclose", "orphan") EXCEPT !.orphans = @ - 1]))
    \/ /\ closing > 0
       /\ Do(onclose([Begin(St, "onclose", "closing") EXCEPT !.closing = @ - 1]))

(* A setTimeout(connectWebSocket, 2000) timer fires (line 61). *)
ReconnectTimer ==
    /\ timers > 0
    /\ Do(connectWebSocket([Begin(St, "timer", "timer") EXCEPT !.timers = @ - 1]))

(* The fetch of a startAnalysis settles and the function resumes. *)
FetchSettled(outcome) ==
    /\ pending > 0
    /\ Do(startAnalysisSettled(Begin(St, "settled", outcome), outcome))

Init == InitOf(SessionIds, SUBSET Kinds, LocationInputs)

(* The user's edits of the form. *)
FormTasks ==
    \/ \E v \in LocationInputs : LocationInput(v)
    \/ \E k \in Kinds : CheckboxChange(k)
    \/ SelectAllClick
    \/ KeydownSelectAll

(* The run requests. *)
RunTasks ==
    \/ ButtonClick
    \/ KeydownEnter
    \/ RunAnalysis

(* The tasks the channels, the timers and the submissions queue. *)
ChannelTasks(messages, outcomes) ==
    \/ \E message \in messages : OnMessage(message)
    \/ OnClose
    \/ ReconnectTimer
    \/ \E outcome \in outcomes : FetchSettled(outcome)

Next == FormTasks \/ RunTasks \/ ChannelTasks(Messages, Outcomes)

Spec == Init /\ [][Next]_vars

(* The page whose markup loads a valid form that the user leaves as it is: *)
(* every run request and every channel, timer and submission task.         *)
ChannelInit == InitOf({"session_1"}, {Kinds}, {Narayanganj})

ChannelNext == RunTasks \/ ChannelTasks(Messages, Outcomes)

ChannelSpec == ChannelInit /\ [][ChannelNext]_vars

(* The page under every edit of the form and every run request, with a    *)
(* backend that pushes only the two events that end a run.                 *)
EndMessages == { m \in Messages : m.type \in {"all_analyses_complete", "error"} }

FormInit == InitOf({"session_1"}, SUBSET Kinds, LocationInputs)

FormNext == FormTasks \/ RunTasks \/ ChannelTasks(EndMessages, {"ok", "http_500"})

FormSpec == FormInit /\ [][FormNext]_vars

(* The page of ChannelSpec with a backend that pushes only the two events  *)
(* that end a run and answers the submission with a 2xx or a 500, and an   *)
(* event loop that runs every timer that is due: a setTimeout callback     *)
(* that stays pending is eventually called.                                *)
RetryNext == RunTasks \/ ChannelTasks(EndMessages, {"ok", "http_500"})

RetrySpec == ChannelInit /\ [][RetryNext]_vars /\ WF_vars(ReconnectTimer)

(* The same page and tasks for each value generateSessionId can return. *)
SessionInit == InitOf(SessionIds, {Kinds}, {Narayanganj})

SessionSpec == SessionInit /\ [][RetryNext]_vars

(* The page with location "Narayanganj" and the one kind "flood" checked,  *)
(* a backend that accepts the submission and pushes any of the four events *)
(* of one run over the channel the handle references, which stays up.      *)
ScenarioScript ==
    << [type |-> "analysis_start", message |-> "start", current |-> 0, total |-> 0,
        completed_analyses |-> <<>>],
       [type |-> "progress_update", message |-> "step", current |-> 1, total |-> 2,
        completed_analyses |-> <<>>],
       [type |-> "progress_update", message |-> "step", current |-> 2, total |-> 2,
        completed_analyses |-> <<>>],
       [type |-> "all_analyses_complete", message |-> "all done", current |-> 0,
        total |-> 0, completed_analyses |-> << "flood" >>] >>

ScenarioMessages == { ScenarioScript[i] : i \in DOMAIN ScenarioScript }

(* websocket.onmessage of the socket the handle references; the message is *)
(* added to the record of what the backend pushed.                         *)
ScenarioOnMessage(message) ==
    /\ websocket = "OPEN"
    /\ Len(delivered) < MaxScript
    /\ LET t == [St EXCEPT !.delivered = Append(@, message)]
       IN  Do(handleWebSocketMessage(BeginWith(t, "onmessage", "handle", message),
                                     message))

ScenarioInit == InitOf({"session_1"}, {{"flood"}}, {Narayanganj})

ScenarioNext ==
    \/ RunTasks
    \/ \E message \in ScenarioMessages : ScenarioOnMessage(message)
    \/ FetchSettled("ok")

ScenarioSpec == ScenarioInit /\ [][ScenarioNext]_vars

(* ----------------- the simulated controller (part_000) ----------------- *)

(* The earlier variant of the controller: no channel, no submission, no    *)
(* results mode.  A run is a 3000 ms timer whose callback resets the form. *)
(* It uses isAnalyzing, allSelected, the form's DOM state, timers (its     *)
(* pending simulation timers) and ev; the other variables keep the values  *)
(* they are given at load.                                                 *)

(* updateRunAnalysisButton of part_000: no early return, isAnalyzing is    *)
(* part of canRun.                                                         *)
simUpdateRunAnalysisButton(s) ==
    LET hasLocation == Len(trim(s.locationValue)) > 0
        hasSelectedAnalysis == s.checked # {}
        canRun == hasLocation /\ hasSelectedAnalysis /\ ~s.isAnalyzing
    IN  [s EXCEPT !.btnDisabled = ~canRun]

simToggleSelectAll(s) ==
    IF s.isAnalyzing THEN s
    ELSE LET t == [s EXCEPT !.allSelected = ~s.allSelected,
                            !.checked = IF ~s.allSelected THEN Kinds ELSE {}]
         IN  simUpdateRunAnalysisButton(updateSelectAllButton(t))

simResetForm(s) ==
    simUpdateRunAnalysisButton([s EXCEPT !.isAnalyzing = FALSE,
                                         !.btnDisabled = FALSE,
                                         !.locationDisabled = FALSE,
                                         !.selectAllDisabled = FALSE,
                                         !.cbDisabled = FALSE])

(* setTimeout(() => { resetForm(); showNotification(...) }, 3000) *)
simulateAnalysis(s) ==
    [s EXCEPT !.timers = @ + 1, !.ev.scheduled = Append(@, SIMULATION_DELAY)]

(* What runAnalysis of part_000 does past its validation. *)
simStart(s) ==
    simulateAnalysis([s EXCEPT !.isAnalyzing = TRUE,
                               !.btnDisabled = TRUE,
                               !.locationDisabled = TRUE,
                               !.selectAllDisabled = TRUE,
                               !.cbDisabled = TRUE])

(* runAnalysis of part_000 without the guard of line 90. *)
simRunAnalysis_noGuard(s) ==
    IF trim(s.locationValue) = <<>> \/ s.checked = {}
    THEN showNotification(s, ValidationMessage, "error")
    ELSE simStart(s)

simRunAnalysis(s) ==
    IF s.isAnalyzing THEN s
    ELSE IF trim(s.locationValue) = <<>> \/ s.checked = {}
    THEN showNotification(s, ValidationMessage, "error")
    ELSE simStart(s)

(* The text of the completion toast, without the location it quotes. *)
CompletedMessage == "Analysis completed"

SimDo(s) == s.timers <= MaxSimTimers /\ Set(s)

SimLocationInput(v) ==
    /\ ~locationDisabled
    /\ SimDo(simUpdateRunAnalysisButton(
                 [Begin(St, "input", "user") EXCEPT !.locationValue = v]))

SimCheckboxChange(k) ==
    /\ ~cbDisabled
    /\ LET t == [Begin(St, "change", "user") EXCEPT
                     !.checked = IF k \in @ THEN @ \ {k} ELSE @ \cup {k}]
       IN  SimDo(simUpdateRunAnalysisButton(updateSelectAllButton(t)))

SimSelectAllClick ==
    /\ ~selectAllDisabled
    /\ SimDo(simToggleSelectAll(Begin(St, "toggleSelectAll", "click")))

SimKeydownSelectAll ==
    SimDo(IF ~isAnalyzing
          THEN simToggleSelectAll(Begin(St, "toggleSelectAll", "key"))
          ELSE Begin(St, "toggleSelectAll", "key"))

SimButtonClick ==
    /\ ~btnDisabled
    /\ SimDo(simRunAnalysis(Called(Begin(St, "click", "user"), "runAnalysis")))

SimKeydownEnter ==
    SimDo(IF ~btnDisabled
          THEN simRunAnalysis(Called(Begin(St, "keydown", "user"), "runAnalysis"))
          ELSE Begin(St, "keydown", "user"))

(* runAnalysis() of part_000 entered in whatever state the page is in. *)
SimRunAnalysis ==
    SimDo(simRunAnalysis(Called(Begin(St, "runAnalysis", "call"), "runAnalysis")))

(* The callback of a simulation timer. *)
SimulationTimer ==
    /\ timers > 0
    /\ LET t == [Begin(St, "timer", "simulation") EXCEPT !.timers = @ - 1]
       IN  SimDo(showNotification(simResetForm(t), CompletedMessage, "success"))

(* Page load of part_000 (lines 11-17): the location field keeps what the  *)
(* markup gives it.                                                        *)
SimInit ==
    \E boxes \in SUBSET Kinds, markupLocation \in LocationInputs :
        LET s0 == [ isAnalyzing |-> FALSE, allSelected |-> FALSE, websocket |-> "null",
                    sessionId |-> "session_1", analysisResults |-> <<>>,
                    buttonMode |-> "analysis", currentProgressItem |-> Undefined,
                    locationValue |-> markupLocation, locationDisabled |-> FALSE,
                    checked |-> boxes, cbDisabled |-> FALSE,
                    selectAllDisabled |-> FALSE, btnDisabled |-> FALSE,
                    clickListeners |-> {"runAnalysis"}, progressContainer |-> <<>>,
                    progressBar |-> <<>>, href |-> <<>>, orphans |-> 0,
                    closing |-> 0, timers |-> 0, pending |-> 0, urls |-> {},
                    delivered |-> <<>>,
                    ev |-> [op |-> "load", src |-> "none", arg |-> NoArg, pre |-> "Idle",
                            calls |-> {}, notes |-> <<>>, opened |-> <<>>, sent |-> <<>>,
                            scheduled |-> <<>>, effects |-> <<>>, threw |-> FALSE] ]
            s1 == simUpdateRunAnalysisButton(updateSelectAllButton(s0))
        IN  /\ isAnalyzing = s1.isAnalyzing
            /\ allSelected = s1.allSelected
            /\ websocket = s1.websocket
            /\ sessionId = s1.sessionId
            /\ analysisResults = s1.analysisResults
            /\ buttonMode = s1.buttonMode
            /\ currentProgressItem = s1.currentProgressItem
            /\ locationValue = s1.locationValue
            /\ locationDisabled = s1.locationDisabled
            /\ checked = s1.checked
            /\ cbDisabled = s1.cbDisabled
            /\ selectAllDisabled = s1.selectAllDisabled
            /\ btnDisabled = s1.btnDisabled
            /\ clickListeners = s1.clickListeners
            /\ progressContainer = s1.progressContainer
            /\ progressBar = s1.progressBar
            /\ href = s1.href
            /\ orphans = s1.orphans
            /\ closing = s1.closing
            /\ timers = s1.timers
            /\ pending = s1.pending
            /\ urls = s1.urls
            /\ delivered = s1.delivered
            /\ ev = s1.ev

SimNext ==
    \/ \E v \in LocationInputs : SimLocationInput(v)
    \/ \E k \in Kinds : SimCheckboxChange(k)
    \/ SimSelectAllClick
    \/ SimKeydownSelectAll
    \/ SimButtonClick
    \/ SimKeydownEnter
    \/ SimRunAnalysis
    \/ SimulationTimer

(* The event loop runs every timer that is due. *)
SimSpec == SimInit /\ [][SimNext]_vars /\ WF_vars(SimulationTimer)

(* ------------------------------ claims --------------------------------- *)

(* Channels that are open: created and not closed by either side. *)
OpenChannels == (IF websocket = "OPEN" THEN 1 ELSE 0) + orphans

FormValid == trim(locationValue) # <<>> /\ checked # {}

(* Everything but the record of the last task and the page's address. *)
pageVars ==
    << isAnalyzing, allSelected, websocket, sessionId, analysisResults, buttonMode,
       currentProgressItem, locationValue, locationDisabled, checked, cbDisabled,
       selectAllDisabled, btnDisabled, clickListeners, progressContainer, progressBar,
       orphans, closing, timers, pending, urls >>

(* The controller's variables and the DOM state it drives: pageVars        *)
(* without the sockets' own state.                                         *)
controllerVars ==
    << isAnalyzing, allSelected, sessionId, analysisResults, buttonMode,
       currentProgressItem, locationValue, locationDisabled, checked, cbDisabled,
       selectAllDisabled, btnDisabled, clickListeners, progressContainer, progressBar,
       timers, pending, urls >>

(* C1: a reconnect timer that fires after the controller was reset to Idle *)
(* opens no channel.  (Timers are set only while Running, so a timer that  *)
(* fires in Idle was set before a reset.)                                  *)
C1_StaleTimerOpensNoChannel ==
    (ev.op = "timer" /\ ev.pre = "Idle") => ev.opened = <<>>

(* C2: at most one channel is open, and one is open only while Running.    *)
C2_OneChannelOnlyWhileRunning ==
    /\ OpenChannels <= 1
    /\ OpenChannels > 0 => isAnalyzing

(* C3: a submission response or a channel event that arrives in            *)
(* ResultsReady leaves the controller in ResultsReady.                     *)
C3_ResultsReadyKept ==
    (ev.op \in {"settled", "onmessage"} /\ ev.pre = "ResultsReady")
        => Phase(St) = "ResultsReady"

(* C4: a run request made while the controller is not Idle opens no        *)
(* channel, sends no submission and changes no variable of the page; the   *)
(* click and the shortcut can then do nothing but navigate to the results. *)
C4_RunRequestOnlyInIdle ==
    [][ (ev'.op \in {"runAnalysis", "click", "keydown"} /\ Phase(St) # "Idle")
            => /\ ev'.opened = <<>>
               /\ ev'.sent = <<>>
               /\ ev'.notes = <<>>
               /\ UNCHANGED pageVars
               /\ "showResults" \notin ev'.calls => UNCHANGED href ]_vars

C4_Witness ==
    /\ ev.op = "runAnalysis"
    /\ "runAnalysis" \in ev.calls
    /\ ev.pre = "ResultsReady"
    /\ Phase(St) = "ResultsReady"

(* C5: runAnalysis entered in Idle with an empty trimmed location or no    *)
(* checked kind shows the validation notification, opens no channel,       *)
(* sends no submission and leaves the controller Idle.                     *)
C5_InvalidRunRejected ==
    [][ ("runAnalysis" \in ev'.calls /\ Phase(St) = "Idle" /\ ~FormValid)
            => /\ ev'.notes = << [type |-> "error", message |-> ValidationMessage] >>
               /\ ev'.opened = <<>>
               /\ ev'.sent = <<>>
               /\ UNCHANGED pageVars
               /\ UNCHANGED href ]_vars

C5_Witness ==
    /\ "runAnalysis" \in ev.calls
    /\ ev.pre = "Idle"
    /\ ~FormValid
    /\ ev.notes = << [type |-> "error", message |-> ValidationMessage] >>

(* C6: a close event observed while Running sets exactly one 2000 ms       *)
(* timer, and the timer's expiry opens exactly one channel, for the        *)
(* session identifier every channel so far was opened for; a close event   *)
(* observed in Idle or ResultsReady sets no timer and changes no variable  *)
(* of the controller.                                                      *)
C6_CloseWhileRunningReconnectsOnce ==
    [][ /\ ev'.op = "onclose" =>
            IF isAnalyzing
            THEN timers' = timers + 1 /\ ev'.scheduled = << RECONNECT_DELAY >>
            ELSE ev'.scheduled = <<>> /\ UNCHANGED controllerVars
        /\ ev'.op = "timer" =>
            /\ timers' = timers - 1
            /\ ev'.opened = << sessionId >>
            /\ urls' = { sessionId } ]_vars

C6_Witness ==
    /\ ev.op = "timer"
    /\ ev.pre = "Running"
    /\ ev.opened = << sessionId >>
    /\ websocket = "OPEN"
    /\ orphans = 0

(* C7: the close event of a socket the controller itself closed sets no    *)
(* reconnect timer.                                                        *)
C7_OwnCloseNeverReconnects ==
    (ev.op = "onclose" /\ ev.src = "closing") => ev.scheduled = <<>>

(* C8: a channel event that arrives in ResultsReady, that is after the     *)
(* run-finished event and before a new run, changes neither the controller *)
(* state nor the log, the bar or the stored results.                       *)
C8_NoEventAfterRunFinished ==
    [][ (ev'.op = "onmessage" /\ ~isAnalyzing /\ buttonMode = "results")
            => UNCHANGED << isAnalyzing, buttonMode, progressContainer, progressBar,
                            analysisResults >> ]_vars

(* C9: a run-finished event processed while Running leaves the controller  *)
(* in ResultsReady: isAnalyzing false, the event's completed_analyses      *)
(* stored, close() called on the socket the handle referenced and the      *)
(* handle cleared, the action control enabled with showResults as its only *)
(* click listener, the location field, the select-all control and the      *)
(* checkboxes enabled.                                                     *)
C9_RunFinishedToResultsReady ==
    [][ (ev'.op = "onmessage" /\ ev'.arg.type = "all_analyses_complete" /\ isAnalyzing)
            => /\ ~isAnalyzing'
               /\ buttonMode' = "results"
               /\ analysisResults' = ev'.arg.completed_analyses
               /\ websocket' = "null"
               /\ closing' = closing + (IF websocket = "OPEN" THEN 1 ELSE 0)
               /\ ~btnDisabled'
               /\ clickListeners' = {"showResults"}
               /\ ~locationDisabled'
               /\ ~selectAllDisabled'
               /\ ~cbDisabled' ]_vars

C9_Witness ==
    /\ ev.op = "onmessage"
    /\ ev.arg.type = "all_analyses_complete"
    /\ ev.pre = "Running"
    /\ analysisResults = << "flood" >>
    /\ closing > 0
    /\ Phase(St) = "ResultsReady"

(* C10: after a fatal-error event or a failed submission (a network error, *)
(* a response that is not ok, a body that is not JSON) the controller is   *)
(* Idle: close() called on the socket the handle referenced and the handle *)
(* cleared, the log and the bar removed, the location field, the           *)
(* select-all control and the checkboxes enabled, runAnalysis the only     *)
(* click listener of the action control, which is enabled exactly when the *)
(* form is valid, and one error notification shown, with the server's      *)
(* message or the reason of the failure.                                   *)
ErrorPath(e) ==
    \/ e.op = "onmessage" /\ e.arg.type = "error"
    \/ e.op = "settled" /\ e.src # "ok"

C10_ErrorPathsReturnToIdle ==
    [][ ErrorPath(ev')
            => /\ ~isAnalyzing'
               /\ buttonMode' = "analysis"
               /\ websocket' = "null"
               /\ closing' = closing + (IF websocket = "OPEN" THEN 1 ELSE 0)
               /\ progressContainer' = <<>>
               /\ progressBar' = <<>>
               /\ ~locationDisabled'
               /\ ~selectAllDisabled'
               /\ ~cbDisabled'
               /\ clickListeners' = {"runAnalysis"}
               /\ btnDisabled' = ~(trim(locationValue') # <<>> /\ checked' # {})
               /\ ev'.notes =
                    << [type |-> "error",
                        message |-> IF ev'.op = "onmessage" THEN ev'.arg.message
                                    ELSE ErrorMessage(ev'.src)] >> ]_vars

C10_Witness ==
    /\ ev.op = "settled"
    /\ ev.src = "http_500"
    /\ ev.pre = "Running"
    /\ Phase(St) = "Idle"
    /\ closing > 0
    /\ ev.notes = << [type |-> "error", message |-> ErrorMessage("http_500")] >>

(* C11: with location "Narayanganj" and the kind "flood", a submission the *)
(* backend accepts and the pushed events run-started, progress 1 of 2,     *)
(* progress 2 of 2, run-finished with one descriptor, in that order, the   *)
(* controller is in ResultsReady with exactly one progress-log entry and   *)
(* the bar at 100 percent, wherever the submission response falls among    *)
(* the events (or if it has not arrived yet).                              *)
C11_ScenarioEndsInResultsReady ==
    delivered = ScenarioScript =>
        /\ Phase(St) = "ResultsReady"
        /\ Len(progressContainer) = 1
        /\ Len(progressBar) = 1
        /\ progressBar[1].width[1] = 100 * progressBar[1].width[2]
        /\ analysisResults = << "flood" >>

C11_Witness ==
    /\ delivered = ScenarioScript
    /\ pending = 0
    /\ ev.op = "settled"
    /\ Phase(St) = "ResultsReady"

(* C12: within a run the progress log is append-only and in arrival order: *)
(* a channel event processed while Running, other than the fatal error     *)
(* that ends the run by a reset, removes and reorders nothing; it adds at  *)
(* most one entry, at the end, carrying the event's message; and it        *)
(* changes an existing entry only when it is a completion event, and then  *)
(* only the entry of the analysis in flight (currentProgressItem), whose   *)
(* icon and text it rewrites.                                              *)
C12_LogAppendOnly ==
    [][ (isAnalyzing /\ ev'.op = "onmessage" /\ ev'.arg.type # "error") =>
          LET n == Len(progressContainer)
          IN  /\ Len(progressContainer') \in { n, n + 1 }
              /\ \A i \in 1..n :
                    \/ progressContainer'[i] = progressContainer[i]
                    \/ /\ ev'.arg.type = "analysis_complete"
                       /\ i = currentProgressItem
                       /\ progressContainer'[i].cls = progressContainer[i].cls
                       /\ progressContainer'[i].message = ev'.arg.message
              /\ Len(progressContainer') = n + 1 =>
                    /\ ev'.arg.type \in { "analysis_start", "analysis_error" }
                    /\ progressContainer'[n + 1].message = ev'.arg.message ]_vars

C12_Witness ==
    /\ ev.op = "onmessage"
    /\ ev.pre = "Running"
    /\ ev.arg.type = "analysis_complete"
    /\ Len(progressContainer) = 2
    /\ currentProgressItem = 1
    /\ progressContainer[1].message = ev.arg.message
    /\ progressContainer[2].cls = "error"

(* C13: reconnection never gives up.  Whenever the controller is Running   *)
(* and the socket its handle references has closed, then, timers being     *)
(* run when due, a channel open is issued or the controller leaves         *)
(* Running; nothing counts or caps the attempts.                           *)
C13_ReconnectNeverGivesUp ==
    (isAnalyzing /\ websocket = "CLOSED") ~> (ev.opened # <<>> \/ ~isAnalyzing)

C13_Witness ==
    /\ ev.op = "onclose"
    /\ ev.src = "handle"
    /\ ev.pre = "Running"
    /\ isAnalyzing
    /\ websocket = "CLOSED"
    /\ urls # {}
    /\ timers > 0

(* C14: the session identifier is fixed at page load: no task changes      *)
(* sessionId, and every channel a task opens (by a run start or by a       *)
(* reconnect), every submission body it sends and the results URL it       *)
(* navigates to carry the identifier the page had before the task; so do   *)
(* the URLs of all the sockets created since the page loaded, also after   *)
(* a reset to Idle and a second run.                                       *)
C14_SessionIdFixedAtLoad ==
    [][ /\ sessionId' = sessionId
        /\ \A i \in DOMAIN ev'.opened : ev'.opened[i] = sessionId
        /\ \A i \in DOMAIN ev'.sent : ev'.sent[i].session_id = sessionId
        /\ href' # href => href' = << sessionId >>
        /\ urls' \subseteq { sessionId } ]_vars

C14_Witness ==
    /\ ev.pre = "Idle"
    /\ ev.sent # <<>>
    /\ ev.opened # <<>>
    /\ closing > 0
    /\ urls = { sessionId }

(* C15: the session identifier is unique per run: a run that starts        *)
(* submits with, and opens its channel for, an identifier that no socket   *)
(* created earlier in the page (for an earlier run) carried.               *)
C15_SessionIdUniquePerRun ==
    [][ ev'.sent # <<>> =>
          /\ \A i \in DOMAIN ev'.sent : ev'.sent[i].session_id \notin urls
          /\ \A i \in DOMAIN ev'.opened : ev'.opened[i] \notin urls ]_vars

(* C16: every task that starts a run issues the channel open and then      *)
(* dispatches the submission, in that order and in that one task; and a    *)
(* channel event is processed the same whether or not the response of the  *)
(* submission has arrived: the state after the event is the one the        *)
(* handler computes from the state before it with no submission pending,   *)
(* the pending submissions left as they were.                              *)
C16_OpenBeforeSubmitEventsNotDeferred ==
    [][ /\ (ev'.sent # <<>> \/ (~isAnalyzing /\ isAnalyzing')) =>
              /\ ev'.effects = << "WebSocket", "fetch" >>
              /\ ev'.opened = << sessionId >>
              /\ isAnalyzing'
              /\ websocket' = "OPEN"
              /\ pending' = pending + 1
        /\ ev'.op = "onmessage" =>
              LET acked == [St EXCEPT !.pending = 0]
                  after == handleWebSocketMessage(
                               BeginWith(acked, "onmessage", ev'.src, ev'.arg), ev'.arg)
              IN  St' = [after EXCEPT !.pending = pending] ]_vars

C16_Witness ==
    /\ ev.op = "onmessage"
    /\ ev.src = "handle"
    /\ ev.pre = "Running"
    /\ ev.arg.type = "progress_update"
    /\ pending > 0
    /\ progressBar # <<>>

(* C17: a 2xx response of the submission changes no controller state,      *)
(* whatever state it arrives in: isAnalyzing, buttonMode, the channel      *)
(* handle, the log, the bar and the stored results stay as they were.      *)
C17_SuccessResponseChangesNothing ==
    [][ (ev'.op = "settled" /\ ev'.src \in Http2xx) =>
            UNCHANGED << isAnalyzing, buttonMode, websocket, progressContainer,
                         progressBar, analysisResults >> ]_vars

(* C18: an unsupported location does not block the run.  A run request in  *)
(* Idle with a kind selected and a location that is not empty and is not   *)
(* "narayanganj" in any letter case rewrites the field to "Narayanganj",   *)
(* shows the warning and starts the run; and the location of every         *)
(* submission body is "narayanganj" when lower-cased.                      *)
C18_UnsupportedLocationCorrected ==
    [][ /\ ( /\ "runAnalysis" \in ev'.calls
             /\ Phase(St) = "Idle"
             /\ FormValid
             /\ toLowerCase(trim(locationValue)) # narayanganj ) =>
               /\ locationValue' = Narayanganj
               /\ ev'.notes = << [type |-> "warning", message |-> UnsupportedMessage] >>
               /\ isAnalyzing'
               /\ Len(ev'.sent) = 1
               /\ ev'.sent[1].analyses = checked
        /\ \A i \in DOMAIN ev'.sent : toLowerCase(ev'.sent[i].location) = narayanganj ]_vars

C18_Witness ==
    /\ "runAnalysis" \in ev.calls
    /\ ev.pre = "Idle"
    /\ ev.notes = << [type |-> "warning", message |-> UnsupportedMessage] >>
    /\ Len(ev.sent) = 1
    /\ ev.sent[1].location = Narayanganj
    /\ locationValue = Narayanganj
    /\ isAnalyzing

(* C19: Ctrl/Cmd + Enter acts exactly when the action control is enabled.  *)
(* With the control enabled it starts a run in submit mode and navigates   *)
(* to the results view in results mode; with the control disabled it       *)
(* calls nothing, shows nothing and changes nothing.  The control is       *)
(* disabled whenever isAnalyzing holds, so the test of isAnalyzing beside  *)
(* the test of the control decides nothing.                                *)
C19_ShortcutActsIffEnabled ==
    [][ /\ isAnalyzing => btnDisabled
        /\ isAnalyzing' => btnDisabled'
        /\ ev'.op = "keydown" =>
              IF btnDisabled
              THEN /\ ev'.calls = {}
                   /\ ev'.notes = <<>>
                   /\ UNCHANGED pageVars
                   /\ UNCHANGED href
              ELSE IF buttonMode = "results"
              THEN /\ ev'.calls = { "showResults" }
                   /\ href' = << sessionId >>
                   /\ UNCHANGED pageVars
              ELSE /\ ev'.calls = { "runAnalysis" }
                   /\ isAnalyzing'
                   /\ Len(ev'.sent) = 1
                   /\ href' = href ]_vars

C19_Witness ==
    /\ ev.op = "keydown"
    /\ ev.pre = "ResultsReady"
    /\ ev.calls = { "showResults" }
    /\ href = << sessionId >>

(* C20: a progress event with total > 0 overwrites the bar: after it the   *)
(* one bar shows the counters and the text of that event and a width of    *)
(* exactly current / total * 100 percent, whatever the bar showed before;  *)
(* nothing keeps the percentage from falling or from exceeding 100.        *)
C20_ProgressOverwritesBar ==
    (ev.op = "onmessage" /\ ev.arg.type = "progress_update" /\ ev.arg.total > 0) =>
        /\ Len(progressBar) = 1
        /\ progressBar[1].current = ev.arg.current
        /\ progressBar[1].total = ev.arg.total
        /\ progressBar[1].message = ev.arg.message
        /\ progressBar[1].width[2] > 0
        /\ progressBar[1].width[1] * ev.arg.total
               = ev.arg.current * 100 * progressBar[1].width[2]

C20_Witness ==
    /\ ev.op = "onmessage"
    /\ ev.arg.type = "progress_update"
    /\ ev.arg.current > ev.arg.total
    /\ ev.arg.total > 0
    /\ Len(progressBar) = 1
    /\ progressBar[1].width[1] > 100 * progressBar[1].width[2]

(* C21: the controller enters ResultsReady only from Running and only by   *)
(* processing a run-finished event: a step that ends in ResultsReady and   *)
(* did not start there starts in Running and is the onmessage of an        *)
(* all_analyses_complete message; no step leads from Idle to ResultsReady. *)
C21_ResultsReadyOnlyFromRunning ==
    [][ (Phase(St') = "ResultsReady" /\ Phase(St) # "ResultsReady") =>
            /\ Phase(St) = "Running"
            /\ ev'.op = "onmessage"
            /\ ev'.arg.type = "all_analyses_complete" ]_vars

(* C22: an analysis_complete event appends no log entry and rewrites the   *)
(* entry of the most recent analysis_start, which is an entry of the log   *)
(* on display: currentProgressItem is an index of the log (not undefined,  *)
(* not an element of a log that was removed), the handler does not throw   *)
(* and that entry carries the event's message afterwards.  Each            *)
(* analysis_start and analysis_error event adds exactly one entry, so the  *)
(* log's length counts them.                                               *)
C22_CompletionRewritesCurrentEntry ==
    [][ /\ (ev'.op = "onmessage" /\ ev'.arg.type = "analysis_complete") =>
              /\ Len(progressContainer') = Len(progressContainer)
              /\ currentProgressItem \in 1..Len(progressContainer)
              /\ ~ev'.threw
              /\ progressContainer'[currentProgressItem].message = ev'.arg.message
        /\ ( /\ ev'.op = "onmessage"
             /\ ev'.arg.type \in { "analysis_start", "analysis_error" } ) =>
              Len(progressContainer') = Len(progressContainer) + 1 ]_vars

(* C23: while isAnalyzing holds the action control, the location field,    *)
(* the select-all control and the checkboxes are all disabled, and no      *)
(* input or change event, select-all toggle, keyboard shortcut or run      *)
(* request enables any of them or changes the location or the selection.   *)
C23_InputsLockedWhileAnalyzing ==
    [][ /\ isAnalyzing =>
              btnDisabled /\ locationDisabled /\ selectAllDisabled /\ cbDisabled
        /\ isAnalyzing' =>
              btnDisabled' /\ locationDisabled' /\ selectAllDisabled' /\ cbDisabled'
        /\ ( /\ isAnalyzing
             /\ ev'.op \in { "input", "change", "toggleSelectAll", "keydown",
                              "click", "runAnalysis" } ) =>
              UNCHANGED << btnDisabled, locationDisabled, selectAllDisabled, cbDisabled,
                           checked, allSelected, locationValue, isAnalyzing >> ]_vars

C23_Witness ==
    /\ ev.op = "toggleSelectAll"
    /\ ev.src = "key"
    /\ ev.pre = "Running"
    /\ isAnalyzing
    /\ cbDisabled
    /\ selectAllDisabled
    /\ checked # {}

(* C24: exactly one click listener is bound to the action control and it   *)
(* is the one of the mode: runAnalysis when buttonMode is "analysis",      *)
(* showResults when it is "results", before and after every task, also     *)
(* after repeated run-finished events and resets; and the page navigates   *)
(* to the results view only by showResults called in ResultsReady.         *)
C24_OneClickListenerMatchingMode ==
    [][ /\ clickListeners =
              IF buttonMode = "results" THEN { "showResults" } ELSE { "runAnalysis" }
        /\ clickListeners' =
              IF buttonMode' = "results" THEN { "showResults" } ELSE { "runAnalysis" }
        /\ href' # href =>
              /\ Phase(St) = "ResultsReady"
              /\ "showResults" \in ev'.calls ]_vars

C24_Witness ==
    /\ ev.op = "onmessage"
    /\ ev.arg.type = "all_analyses_complete"
    /\ ev.pre = "ResultsReady"
    /\ buttonMode = "results"
    /\ clickListeners = { "showResults" }

(* C25: in ResultsReady the action control stays enabled and bound to the  *)
(* results navigation: an edit of the location field, a change of a        *)
(* checkbox or a select-all toggle leaves it enabled, with showResults as  *)
(* its click listener, and leaves the controller in ResultsReady.          *)
C25_ResultsControlStaysEnabled ==
    [][ ( /\ Phase(St) = "ResultsReady"
          /\ ev'.op \in { "input", "change", "toggleSelectAll" } ) =>
            /\ ~btnDisabled'
            /\ clickListeners' = { "showResults" }
            /\ Phase(St') = "ResultsReady" ]_vars

(* C26: in the simulated controller every accepted run terminates.  A      *)
(* simulation timer is pending exactly while isAnalyzing holds and never   *)
(* more than one, so no second run starts before the first ends; and       *)
(* whenever isAnalyzing holds, the timer eventually fires and resetForm    *)
(* returns the controller to idle with the location field, the select-all  *)
(* control, the checkboxes and the action control enabled.                 *)
C26_SimulatedRunTerminates ==
    /\ [](timers <= 1 /\ (isAnalyzing <=> timers = 1))
    /\ isAnalyzing ~>
           ( /\ ~isAnalyzing
             /\ timers = 0
             /\ ~locationDisabled /\ ~selectAllDisabled /\ ~cbDisabled /\ ~btnDisabled )

C26_Witness ==
    /\ ev.op = "timer"
    /\ ev.src = "simulation"
    /\ ev.pre = "Running"
    /\ ev.notes = << [type |-> "success", message |-> CompletedMessage] >>
    /\ ~isAnalyzing
    /\ timers = 0
    /\ ~locationDisabled
====
